---- MODULE Spec2Model ----
(***************************************************************************)
(* SP3-Conv: Mid/Side split, coupled normalisation, downsampling and the   *)
(* SNES BRR codec (src/README.md holds the codec's JavaScript, src/unnamed *)
(* /part_000 the signal processing, src/app.js the page's handlers).       *)
(*                                                                         *)
(* JavaScript arrays are modelled as sequences: element i of the source is *)
(* element i+1 here.                                                       *)
(***************************************************************************)
EXTENDS Integers, Sequences, FiniteSets, TLC

VARIABLES
    float32PcmData,   \* the signal to encode, each sample x held as n with x = n/32768
    cursor,           \* samples of float32PcmData already handed to encodeBRR
    brrStream,        \* the blocks returned by the encodeBRR calls so far, concatenated
    calls,            \* per encodeBRR call: the samples it was given, the blocks it returned
    encLog,           \* per block of brrStream: what findAndEncodeBlock was given and returned
    decoded,          \* decodeBRR(brrStream): float samples in units of 1/32768
    brrPc,            \* "encode", "decode" or "done" ("idle" when left out)
    unit,             \* Mid/Side: a sample x of the channels is held as n with x = n / 2^unit
    leftChannel,      \* stereoBuffer.getChannelData(0)
    rightChannel,     \* stereoBuffer.getChannelData(1)
    midSignal,        \* convertToMidSide's mid, in units of 2^-(unit+1)
    sideSignal,       \* convertToMidSide's side, in units of 2^-(unit+1)
    left,             \* reconstructStereo's left, in units of 2^-(unit+1)
    right,            \* reconstructStereo's right, in units of 2^-(unit+1)
    msPc,             \* "input", "split" or "recombined" ("idle" when left out)
    midIn,            \* normalizeCoupled's midSignal as passed, each sample n for n / 2^24
    sideIn,           \* normalizeCoupled's sideSignal as passed
    midOut,           \* midSignal when normalizeCoupled returns, as numbers
    sideOut,          \* sideSignal when normalizeCoupled returns
    scaled,           \* whether the branch of line 49 was taken
    normPc,           \* "input" or "normalized" ("idle" when left out)
    originalSampleRate,  \* manualDownsample's arguments
    targetSampleRate,
    signalLength,     \* signalData.length
    newLength,        \* result.length
    readIndex,        \* per sample of result, the index of filteredSignal it was read from
    downPc,           \* "input" or "done" ("idle" when left out)
    predFilter,       \* getPrediction's arguments filter, p1 and p2
    predP1,
    predP2,
    predOut,          \* what getPrediction returned
    predPc,           \* "input" or "done" ("idle" when left out)
    gaussIn,          \* applyGaussFilter's pcmData, each sample n for n / 2^18
    gaussOut,         \* the array it returned, in units of 2^-29
    gaussPc,          \* "input" or "done" ("idle" when left out)
    trialBlock,       \* findAndEncodeBlock's pcmBlock: 16 int16 samples
    trialP1,          \* its carried-in state p1 and p2
    trialP2,
    trialResult,      \* what it returned, with the search's choice
    trialPc,          \* "input" or "done" ("idle" when left out)
    decBlocks,        \* decodeBRR's brrBlocks: any 9-byte blocks
    decRun,           \* its int16 samples (the floats are these over 32768) and its history
    decPc,            \* "input" or "done" ("idle" when left out)
    routeLength,      \* downsampleSignal's signalData.length
    routeOriginalSr,  \* its originalSampleRate and targetSampleRate
    routeTargetSr,
    routePath,        \* "manual" or "native": the downsampler it called
    routeNewLength,   \* the length of the array it resolved to
    routePc,          \* "input" or "done" ("idle" when left out)
    currentFileObject,\* app.js: the file last given to handleFile ("none" for null)
    decodedAudioBuffer,\* <<>> for null, or <<f>>: the buffer decoded from file f
    encodedBrr,       \* [mid, side]: <<>> for null, or the blocks encodeBRR returned
    decodedPcm,       \* [mid, side]: <<>> for null, or the int16 samples of the cached decode
    currentlyPlayingSource,\* 0 for null, or the index in sources of the buffer source held
    playingChannel,   \* "null", "mid", "side" or "full"
    resultsShown,     \* whether resultsArea is shown (not hidden)
    midRate,          \* midSamplerateSelect.value and sideSamplerateSelect.value
    sideRate,
    fileTasks,        \* the handleFile invocations: file, target rates, and where each is suspended
    playTasks,        \* the handlePlayback and handleFullPlayback invocations that went on to play
    sources,          \* the buffer sources created: channel, state, and whether onended is set
    producedBy        \* the handleFile invocation that wrote encodedBrr.mid, .side and the buffer

brrVars == <<float32PcmData, cursor, brrStream, calls, encLog, decoded, brrPc>>

msVars == <<unit, leftChannel, rightChannel, midSignal, sideSignal, left, right, msPc>>

normVars == <<midIn, sideIn, midOut, sideOut, scaled, normPc>>

downVars == <<originalSampleRate, targetSampleRate, signalLength, newLength, readIndex, downPc>>

predVars == <<predFilter, predP1, predP2, predOut, predPc>>

gaussVars == <<gaussIn, gaussOut, gaussPc>>

trialVars == <<trialBlock, trialP1, trialP2, trialResult, trialPc>>

decVars == <<decBlocks, decRun, decPc>>

routeVars == <<routeLength, routeOriginalSr, routeTargetSr, routePath, routeNewLength, routePc>>

appVars == <<currentFileObject, decodedAudioBuffer, encodedBrr, decodedPcm, currentlyPlayingSource, playingChannel, resultsShown, midRate, sideRate, fileTasks, playTasks, sources, producedBy>>

vars == <<brrVars, msVars, normVars, downVars, predVars, gaussVars, trialVars, decVars, routeVars, appVars>>

\* the state of a component that a specification leaves out
BrrIdle ==
    /\ float32PcmData = <<>>
    /\ cursor = 0
    /\ brrStream = <<>>
    /\ calls = <<>>
    /\ encLog = <<>>
    /\ decoded = <<>>
    /\ brrPc = "idle"

MsIdle ==
    /\ unit = 0
    /\ leftChannel = <<>>
    /\ rightChannel = <<>>
    /\ midSignal = <<>>
    /\ sideSignal = <<>>
    /\ left = <<>>
    /\ right = <<>>
    /\ msPc = "idle"

NormIdle ==
    /\ midIn = <<>>
    /\ sideIn = <<>>
    /\ midOut = <<>>
    /\ sideOut = <<>>
    /\ scaled = FALSE
    /\ normPc = "idle"

DownIdle ==
    /\ originalSampleRate = 0
    /\ targetSampleRate = 0
    /\ signalLength = 0
    /\ newLength = 0
    /\ readIndex = <<>>
    /\ downPc = "idle"

PredIdle ==
    /\ predFilter = 0
    /\ predP1 = 0
    /\ predP2 = 0
    /\ predOut = 0
    /\ predPc = "idle"

GaussIdle ==
    /\ gaussIn = <<>>
    /\ gaussOut = <<>>
    /\ gaussPc = "idle"

TrialIdle ==
    /\ trialBlock = <<>>
    /\ trialP1 = 0
    /\ trialP2 = 0
    /\ trialResult = <<>>
    /\ trialPc = "idle"

DecIdle ==
    /\ decBlocks = <<>>
    /\ decRun = [pcmSamples |-> <<>>, trace |-> <<>>, p1 |-> 0, p2 |-> 0]
    /\ decPc = "idle"

RouteIdle ==
    /\ routeLength = 0
    /\ routeOriginalSr = 0
    /\ routeTargetSr = 0
    /\ routePath = "none"
    /\ routeNewLength = 0
    /\ routePc = "idle"

AppIdle ==
    /\ currentFileObject = "none"
    /\ decodedAudioBuffer = <<>>
    /\ encodedBrr = [mid |-> <<>>, side |-> <<>>]
    /\ decodedPcm = [mid |-> <<>>, side |-> <<>>]
    /\ currentlyPlayingSource = 0
    /\ playingChannel = "null"
    /\ resultsShown = FALSE
    /\ midRate = 0
    /\ sideRate = 0
    /\ fileTasks = <<>>
    /\ playTasks = <<>>
    /\ sources = <<>>
    /\ producedBy = [mid |-> 0, side |-> 0, buffer |-> 0]

\* every component but the one a specification is about is left out
OthersIdle(spec) ==
    /\ IF spec = "brr" THEN TRUE ELSE BrrIdle
    /\ IF spec = "ms" THEN TRUE ELSE MsIdle
    /\ IF spec = "norm" THEN TRUE ELSE NormIdle
    /\ IF spec = "down" THEN TRUE ELSE DownIdle
    /\ IF spec = "pred" THEN TRUE ELSE PredIdle
    /\ IF spec = "gauss" THEN TRUE ELSE GaussIdle
    /\ IF spec = "trial" THEN TRUE ELSE TrialIdle
    /\ IF spec = "dec" THEN TRUE ELSE DecIdle
    /\ IF spec = "route" THEN TRUE ELSE RouteIdle
    /\ IF spec = "app" THEN TRUE ELSE AppIdle

(***************************************************************************)
(* TLC evaluates an operator's argument, and a LET definition, each time   *)
(* it is used.  Let(v, F) evaluates v once and applies F to the value, as  *)
(* a const declaration of the source does.                                 *)
(***************************************************************************)
Let(v, F(_)) == CHOOSE r \in {F(x) : x \in {v}} : TRUE

(***************************************************************************)
(* Integer helpers for the bit operations of the source.                   *)
(***************************************************************************)
RECURSIVE Pow2(_)
Pow2(n) == IF n = 0 THEN 1 ELSE 2 * Pow2(n - 1)

Abs(n) == IF n < 0 THEN -n ELSE n

\* n >> k on a 32-bit signed value: floor(n / 2^k)
Sar(n, k) == n \div Pow2(k)

\* Math.round of the rational num/den (den = 1 or even): floor(num/den + 1/2)
MathRound(num, den) == (num + (den \div 2)) \div den

Int16 == -32768..32767

\* wrap16 as a clamp to the 16-bit range
wrap16AsClamp(n) == IF n > 32767 THEN 32767 ELSE IF n < -32768 THEN -32768 ELSE n

\* (n << 16) >> 16
wrap16(n) == ((n + 32768) % 65536) - 32768

\* clamp16 of the rational num/den
clamp16(num, den) ==
    IF num > 32767 * den THEN 32767
    ELSE IF num < (-32768) * den THEN -32768
    ELSE MathRound(num, den)

\* the rational prediction of a filter as <<numerator, denominator>>:
\* 0.9375 = 15/16, 1.90625 = 61/32, 1.796875 = 115/64, 0.8125 = 13/16
Prediction(filter, p1, p2) ==
    CASE filter = 0 -> <<0, 1>>
      [] filter = 1 -> <<15 * p1, 16>>
      [] filter = 2 -> <<61 * p1 - 30 * p2, 32>>
      [] filter = 3 -> <<115 * p1 - 52 * p2, 64>>

getPrediction(filter, p1, p2) ==
    Let(Prediction(filter, p1, p2),
        LAMBDA prediction : wrap16(MathRound(prediction[1], prediction[2])))

(***************************************************************************)
(* totalError exceeds 32 bits (a squared error reaches 65535^2 and the     *)
(* out-of-range penalty is 999999999), so it is kept as <<hi, lo>> with    *)
(* value hi * 65536 + lo, 0 <= lo < 65536.  The source holds it in a       *)
(* double, where every integer below 2^53 is exact, and compares           *)
(* totalError / 16, an exact division.                                     *)
(***************************************************************************)
WNorm(hi, lo) == <<hi + (lo \div 65536), lo % 65536>>

WAdd(a, b) == WNorm(a[1] + b[1], a[2] + b[2])

\* error * error, for |error| = 256 * a + b
WSquareOf(a, b) == WNorm(a * a, (512 * a * b) + (b * b))

WSquare(error) == WSquareOf(Abs(error) \div 256, Abs(error) % 256)

\* no penalty for a reconstruction outside the int16 range
PenaltyNone == <<0, 0>>

\* 999999999 (line 94)
Penalty == <<15258, 51711>>

\* bestError's initial value (line 128)
Infinity == <<-1, -1>>

\* a < b, where b may be Infinity
WLess(a, b) ==
    IF b = Infinity THEN a # Infinity
    ELSE a # Infinity /\ (a[1] < b[1] \/ (a[1] = b[1] /\ a[2] < b[2]))

(***************************************************************************)
(* processBlock: one sample of the loop body, then the loop.               *)
(***************************************************************************)
\* lines 73-77
wrapDiff(diff) ==
    IF Abs(diff) > 16384 /\ Abs(diff) < 32768
    THEN (IF diff > 0 THEN diff - 32768 ELSE diff + 32768)
    ELSE diff

\* lines 82-85: c from dp_quant_offset
quantLevel(dp_quant_offset, step) ==
    IF dp_quant_offset > 0
    THEN (IF step > 1
          THEN (IF dp_quant_offset \div (step \div 2) > 15 THEN 15
                ELSE dp_quant_offset \div (step \div 2))
          ELSE (IF dp_quant_offset * 2 > 15 THEN 15 ELSE dp_quant_offset * 2))
    ELSE 0

\* quantize with the nibble's bias off by one
quantizeBias7(diff, step) == quantLevel(diff + (step * 4) + (step \div 4), step) - 7

\* lines 79-87: quantizedNibble
quantize(diff, step) == quantLevel(diff + (step * 4) + (step \div 4), step) - 8

\* lines 91-100, from clampedHalf
sampleResult(pcmSample, quantizedNibble, clampedHalf) ==
    Let(wrap16(clampedHalf * 2), LAMBDA wrappedReconstructedSample :
        [nibble |-> quantizedNibble,
         recon |-> wrappedReconstructedSample,
         outOfRange |-> clampedHalf * 2 > 32767 \/ clampedHalf * 2 < -32768,
         errorSq |-> IF clampedHalf * 2 > 32767 \/ clampedHalf * 2 < -32768
                     THEN WAdd(Penalty, WSquare(pcmSample - wrappedReconstructedSample))
                     ELSE WSquare(pcmSample - wrappedReconstructedSample)])

\* lines 69-103 for one sample: the quantised nibble, the wrapped reconstruction,
\* whether clampedHalf * 2 left the int16 range, and what the sample adds to totalError
processSample(pcmSample, shiftAmount, filter, p1, p2) ==
    Let(Sar(getPrediction(filter, p1, p2), 1), LAMBDA vlin :
    Let(Pow2(shiftAmount), LAMBDA step :
    Let(quantize(wrapDiff(Sar(pcmSample, 1) - vlin), step), LAMBDA quantizedNibble :
    Let(clamp16(vlin + Sar(quantizedNibble * step, 1), 1), LAMBDA clampedHalf :
        sampleResult(pcmSample, quantizedNibble, clampedHalf)))))

\* the nibbles of a byte in the other order: even samples into the low nibble
packNibbleLowFirst(brrBuffer, i, quantizedNibble) ==
    IF i % 2 = 1
    THEN [brrBuffer EXCEPT ![2 + (i \div 2)] = ((quantizedNibble % 16) * 16) + (@ % 16)]
    ELSE [brrBuffer EXCEPT ![2 + (i \div 2)] = quantizedNibble % 16]

\* lines 106-112: the nibble of sample i packed into brrBuffer (byte k is element k+1)
packNibble(brrBuffer, i, quantizedNibble) ==
    IF i % 2 = 0
    THEN [brrBuffer EXCEPT ![2 + (i \div 2)] = ((quantizedNibble % 16) * 16) % 256]
    ELSE [brrBuffer EXCEPT ![2 + (i \div 2)] = (16 * (@ \div 16)) + (quantizedNibble % 16)]

\* one iteration of the loop of lines 68-114
processStep(pcmBlock, shiftAmount, filter, writeMode, i, acc) ==
    Let(processSample(pcmBlock[i + 1], shiftAmount, filter, acc.p1, acc.p2), LAMBDA r :
        [totalError |-> WAdd(acc.totalError, r.errorSq),
         p1 |-> r.recon,
         p2 |-> acc.p1,
         outOfRange |-> acc.outOfRange \/ r.outOfRange,
         nibbles |-> Append(acc.nibbles, r.nibble),
         recon |-> Append(acc.recon, r.recon),
         block |-> IF writeMode THEN packNibble(acc.block, i, r.nibble) ELSE acc.block])

\* Iterations lo .. hi-1 in ascending order from state acc; the range is halved
\* only to keep TLC's evaluation shallow.
RECURSIVE processLoop(_, _, _, _, _, _, _)
processLoop(pcmBlock, shiftAmount, filter, writeMode, lo, hi, acc) ==
    IF hi = lo + 1 THEN processStep(pcmBlock, shiftAmount, filter, writeMode, lo, acc)
    ELSE Let(processLoop(pcmBlock, shiftAmount, filter, writeMode, lo, (lo + hi) \div 2, acc),
             LAMBDA first :
                 processLoop(pcmBlock, shiftAmount, filter, writeMode, (lo + hi) \div 2, hi, first))

\* writeMode: [block, p1, p2]; otherwise [error, p1, p2] with error as totalError
\* (16 times the source's error).  outOfRange tells whether line 92's test held;
\* nibbles and recon are the 16 values of quantizedNibble and
\* wrappedReconstructedSample.
processBlock(pcmBlock, shiftAmount, filter, initial_p1, initial_p2, writeMode) ==
    Let(processLoop(pcmBlock, shiftAmount, filter, writeMode, 0, 16,
                    [totalError |-> <<0, 0>>, p1 |-> initial_p1, p2 |-> initial_p2,
                     outOfRange |-> FALSE, nibbles |-> <<>>, recon |-> <<>>,
                     block |-> <<0, 0, 0, 0, 0, 0, 0, 0, 0>>]),
        LAMBDA acc :
            IF writeMode
            THEN [block |-> acc.block, p1 |-> acc.p1, p2 |-> acc.p2,
                  outOfRange |-> acc.outOfRange, nibbles |-> acc.nibbles,
                  recon |-> acc.recon]
            ELSE [error |-> acc.totalError, p1 |-> acc.p1, p2 |-> acc.p2,
                  outOfRange |-> acc.outOfRange])

(***************************************************************************)
(* findAndEncodeBlock: the search, shift outer and filter inner, as one    *)
(* loop over c = 4 * s + f.                                                *)
(***************************************************************************)
NumShifts == 13
NumFilters == 4

\* the comparison as <=, which lets the last of equal candidates win
BetterOrEqual(error, bestError) == error = bestError \/ WLess(error, bestError)

\* result.error < bestError (line 134)
Better(error, bestError) == WLess(error, bestError)

\* lines 133-138 for candidate c = 4 * s + f
searchStep(pcmBlock, p1, p2, c, best) ==
    Let(processBlock(pcmBlock, c \div NumFilters, c % NumFilters, p1, p2, FALSE),
        LAMBDA result :
            IF Better(result.error, best.bestError)
            THEN [bestError |-> result.error,
                  bestShift |-> c \div NumFilters,
                  bestFilter |-> c % NumFilters]
            ELSE best)

\* candidates lo .. hi-1 in ascending order (the range is halved as in processLoop)
RECURSIVE searchLoop(_, _, _, _, _, _)
searchLoop(pcmBlock, p1, p2, lo, hi, best) ==
    IF hi = lo + 1 THEN searchStep(pcmBlock, p1, p2, lo, best)
    ELSE Let(searchLoop(pcmBlock, p1, p2, lo, (lo + hi) \div 2, best), LAMBDA first :
             searchLoop(pcmBlock, p1, p2, (lo + hi) \div 2, hi, first))

\* the filter shifted by one bit too few, into the LOOP bit
HeaderFilterShift1(bestShift, bestFilter) == (bestShift * 16) + (bestFilter * 2)

\* line 142: (bestShift << 4) | (bestFilter << 2)
Header(bestShift, bestFilter) == (bestShift * 16) + (bestFilter * 4)

\* lines 128-140
findBest(pcmBlock, p1, p2) ==
    searchLoop(pcmBlock, p1, p2, 0, NumShifts * NumFilters,
               [bestError |-> Infinity, bestShift |-> 0, bestFilter |-> 0])

findAndEncodeBlock(pcmBlock, p1, p2) ==
    Let(findBest(pcmBlock, p1, p2), LAMBDA best :
    Let(processBlock(pcmBlock, best.bestShift, best.bestFilter, p1, p2, TRUE),
        LAMBDA finalResult :
            [block |-> [finalResult.block EXCEPT
                            ![1] = Header(best.bestShift, best.bestFilter) % 256],
             p1 |-> finalResult.p1,
             p2 |-> finalResult.p2,
             outOfRange |-> finalResult.outOfRange,
             bestShift |-> best.bestShift, bestFilter |-> best.bestFilter,
             nibbles |-> finalResult.nibbles, recon |-> finalResult.recon]))

(***************************************************************************)
(* encodeBRR.  A float sample x is held as the integer n with x = n/32768  *)
(* (every such x with |n| <= 2^24 is a float32, and x * 32767 is exact in  *)
(* a double).                                                              *)
(***************************************************************************)
\* line 154: clamp16(float32PcmData[i] * 32767)
floatToPcm(n) == clamp16(n * 32767, 32768)

\* lines 152-155
toPcmData(data) == [i \in 1..Len(data) |-> floatToPcm(data[i])]

\* the padding without the outer % 16: a whole block of padding for a whole number of blocks
padPcmAlways(pcmData) == pcmData \o [k \in 1..(16 - (Len(pcmData) % 16)) |-> 0]

\* lines 156-161
padPcm(pcmData) ==
    IF (16 - (Len(pcmData) % 16)) % 16 # 0
    THEN pcmData \o [k \in 1..((16 - (Len(pcmData) % 16)) % 16) |-> 0]
    ELSE pcmData

\* what one iteration of lines 164-170 gave findAndEncodeBlock and got back
logEntry(pcmBlock, p1, p2, result) ==
    [pcmBlock |-> pcmBlock, p1 |-> p1, p2 |-> p2, block |-> result.block,
     out_p1 |-> result.p1, out_p2 |-> result.p2, outOfRange |-> result.outOfRange,
     bestShift |-> result.bestShift, bestFilter |-> result.bestFilter,
     nibbles |-> result.nibbles, recon |-> result.recon]

\* lines 162-170
RECURSIVE encodeLoop(_, _, _, _, _)
encodeLoop(paddedPcmData, i, p1, p2, log) ==
    IF i >= Len(paddedPcmData) THEN log
    ELSE Let(SubSeq(paddedPcmData, i + 1, i + 16), LAMBDA pcmBlock :
         Let(findAndEncodeBlock(pcmBlock, p1, p2), LAMBDA result :
             encodeLoop(paddedPcmData, i + 16, result.p1, result.p2,
                        Append(log, logEntry(pcmBlock, p1, p2, result)))))

\* END set on the first block instead of the last
setEndFirst(brrBlocks) ==
    IF Len(brrBlocks) > 0
    THEN [brrBlocks EXCEPT ![1][1] = (2 * (@ \div 2)) + 1]
    ELSE brrBlocks

\* lines 171-173: brrBlocks[brrBlocks.length - 1][0] |= 0x01
setEnd(brrBlocks) ==
    IF Len(brrBlocks) > 0
    THEN [brrBlocks EXCEPT ![Len(brrBlocks)][1] = (2 * (@ \div 2)) + 1]
    ELSE brrBlocks

encodeRun(data) ==
    Let(padPcm(toPcmData(data)) \o <<>>, LAMBDA paddedPcmData :
        encodeLoop(paddedPcmData, 0, 0, 0, <<>>))

blocksOf(log) == [j \in 1..Len(log) |-> log[j].block]

encodeBRR(float32Pcm) ==
    Let(encodeRun(float32Pcm), LAMBDA log : setEnd(blocksOf(log) \o <<>>))

(***************************************************************************)
(* decodeBRR.  The returned float is pcmSamples[i] / 32768, held as the    *)
(* int16 pcmSamples[i] in the same unit of 1/32768.                        *)
(***************************************************************************)
\* lines 201/218: sign extension of a 4-bit nibble
signExtend(nibble) == IF (nibble \div 8) % 2 = 1 THEN nibble - 16 ELSE nibble

\* lines 203/220
dequantize(signedNibble, shiftAmount) ==
    IF shiftAmount <= 12
    THEN Sar(signedNibble * Pow2(shiftAmount), 1)
    ELSE (IF signedNibble < 0 THEN -2048 ELSE 2048)

\* the 15-bit wrap without its second test
wrap15HighOnly(sample) == IF sample > 16383 THEN sample - 32768 ELSE sample

\* lines 209-210: the SPC700's 15-bit wrap
wrap15Low(sample) == IF sample < -16384 THEN sample + 32768 ELSE sample

wrap15(sample) == wrap15Low(IF sample > 16383 THEN sample - 32768 ELSE sample)

\* lines 203-210: the new history sample
decodeNibble(nibble, shiftAmount, filter, p1, p2) ==
    Let(clamp16(dequantize(signExtend(nibble), shiftAmount)
                + getPrediction(filter, p1, p2), 1),
        LAMBDA sample : wrap15(sample))

\* nibble k (0..15) of a block: high nibble of byte 1 + k/2 first
nibbleAt(block, k) ==
    IF k % 2 = 0 THEN block[2 + (k \div 2)] \div 16 ELSE block[2 + (k \div 2)] % 16

shiftOf(header) == (header \div 16) % 16

filterOf(header) == (header \div 4) % 4

\* sample n of the stream: nibble n % 16 of block n / 16; trace keeps (p1, p2) as they
\* are after each sample
decodeStep(brrBlocks, n, acc) ==
    Let(brrBlocks[(n \div 16) + 1], LAMBDA block :
    Let(decodeNibble(nibbleAt(block, n % 16), shiftOf(block[1]), filterOf(block[1]),
                     acc.p1, acc.p2),
        LAMBDA sample :
            [pcmSamples |-> Append(acc.pcmSamples, wrap16(sample * 2)),
             trace |-> Append(acc.trace, <<sample, acc.p1>>),
             p1 |-> sample,
             p2 |-> acc.p1]))

\* samples lo .. hi-1 in ascending order (the range is halved as in processLoop)
RECURSIVE decodeLoop(_, _, _, _)
decodeLoop(brrBlocks, lo, hi, acc) ==
    IF hi = lo THEN acc
    ELSE IF hi = lo + 1 THEN decodeStep(brrBlocks, lo, acc)
    ELSE Let(decodeLoop(brrBlocks, lo, (lo + hi) \div 2, acc), LAMBDA first :
             decodeLoop(brrBlocks, (lo + hi) \div 2, hi, first))

decodeRun(brrBlocks) ==
    decodeLoop(brrBlocks, 0, 16 * Len(brrBlocks), [pcmSamples |-> <<>>, trace |-> <<>>, p1 |-> 0, p2 |-> 0])

decodeBRR(brrBlocks) == decodeRun(brrBlocks).pcmSamples

(***************************************************************************)
(* float32.  A value is held as an integer n in units of 2^-g.  Storing a  *)
(* number into a Float32Array rounds it to the nearest float32, ties to    *)
(* even: 24 significant bits, and no bits below 2^-149.  (Overflow to      *)
(* Infinity, beyond 2^128, is out of the range of the values used here.)   *)
(***************************************************************************)
\* the number of significant bits of 0 <= n < 2^30
BitLen(n) == CHOOSE k \in 0..30 : n < Pow2(k) /\ (k = 0 \/ n >= Pow2(k - 1))

Max(a, b) == IF a > b THEN a ELSE b

\* the exponent, in units, of the spacing of the float32 values around n * 2^-g
UlpExp(n, g) == Max(Max(BitLen(Abs(n)) - 24, g - 149), 0)

\* n rounded to a multiple of 2^sh, ties to the even multiple
RoundToMultiple(n, sh) ==
    IF sh = 0 THEN n
    ELSE Let(Abs(n) \div Pow2(sh), LAMBDA q :
         Let(Abs(n) % Pow2(sh), LAMBDA r :
         Let(IF r > Pow2(sh - 1) \/ (r = Pow2(sh - 1) /\ q % 2 = 1) THEN q + 1 ELSE q,
             LAMBDA rounded :
                 IF n < 0 THEN -(rounded * Pow2(sh)) ELSE rounded * Pow2(sh))))

\* Math.fround of n * 2^-g, in the same units
RoundF32(n, g) == RoundToMultiple(n, UlpExp(n, g))

IsF32(n, g) == RoundF32(n, g) = n

(***************************************************************************)
(* Doubles.  A JavaScript number is an IEEE-754 double: 53 significant     *)
(* bits, each operation rounded to nearest, ties to even.  Significands    *)
(* exceed 32 bits, so a natural number is held as BigW limbs of 15 bits,   *)
(* least significant first.                                                *)
(***************************************************************************)
BigW == 6

LimbBase == Pow2(15)

Limbs == 1..BigW

\* a function over Limbs as a tuple (its limbs are then evaluated once)
Big(f) == f \o <<>>

BigZero == Big([i \in Limbs |-> 0])

\* 0 <= n < 2^31
BigOf(n) ==
    Big([i \in Limbs |-> CASE i = 1 -> n % LimbBase
                           [] i = 2 -> (n \div LimbBase) % LimbBase
                           [] i = 3 -> n \div (LimbBase * LimbBase)
                           [] OTHER -> 0])

\* a < 2^31
BigToInt(a) == a[1] + (LimbBase * a[2]) + (LimbBase * LimbBase * a[3])

\* the greatest element of a non-empty set of integers
Greatest(S) == CHOOSE i \in S : \A j \in S : j <= i

\* -1, 0 or 1 as a < b, a = b or a > b
BigCmp(a0, b0) ==
    Let(a0, LAMBDA a : Let(b0, LAMBDA b :
        IF a = b THEN 0
        ELSE IF a[Greatest({i \in Limbs : a[i] # b[i]})]
                  < b[Greatest({i \in Limbs : a[i] # b[i]})] THEN -1 ELSE 1))

\* the carry into limb i of a + b
CarryInto(a, b, i) ==
    \E j \in 1..(i - 1) :
        /\ a[j] + b[j] >= LimbBase
        /\ \A k \in (j + 1)..(i - 1) : a[k] + b[k] = LimbBase - 1

BigAdd(a0, b0) ==
    Let(a0, LAMBDA a : Let(b0, LAMBDA b :
        Big([i \in Limbs |->
                (a[i] + b[i] + (IF CarryInto(a, b, i) THEN 1 ELSE 0)) % LimbBase])))

\* the borrow from limb i of a - b
BorrowFrom(a, b, i) ==
    \E j \in 1..(i - 1) :
        /\ a[j] < b[j]
        /\ \A k \in (j + 1)..(i - 1) : a[k] = b[k]

\* a - b for a >= b
BigSub(a0, b0) ==
    Let(a0, LAMBDA a : Let(b0, LAMBDA b :
        Big([i \in Limbs |->
                (LimbBase + a[i] - b[i] - (IF BorrowFrom(a, b, i) THEN 1 ELSE 0))
                    % LimbBase])))

\* limb i of a, 0 outside the limbs
LimbAt(a, i) == IF i \in Limbs THEN a[i] ELSE 0

\* a * d for a limb d
BigMulLimb(a0, d) ==
    Let(a0, LAMBDA a :
        BigAdd([i \in Limbs |-> (a[i] * d) % LimbBase],
               [i \in Limbs |-> (LimbAt(a, i - 1) * d) \div LimbBase]))

\* a * LimbBase^k
BigShiftLimbs(a0, k) == Let(a0, LAMBDA a : Big([i \in Limbs |-> LimbAt(a, i - k)]))

\* a * b[i] * LimbBase^(i-1), summed over the limbs from i up
RECURSIVE BigMulFrom(_, _, _)
BigMulFrom(a, b, i) ==
    IF i > BigW THEN BigZero
    ELSE BigAdd(BigShiftLimbs(BigMulLimb(a, b[i]), i - 1), BigMulFrom(a, b, i + 1))

BigMul(a0, b0) == Let(a0, LAMBDA a : Let(b0, LAMBDA b : BigMulFrom(a, b, 1)))

\* a * 2^k
BigShl(a0, k) == BigShiftLimbs(BigMulLimb(a0, Pow2(k % 15)), k \div 15)

\* floor(a / 2^k)
BigShr(a0, k) ==
    Let(a0, LAMBDA a :
        Big([i \in Limbs |->
                (LimbAt(a, i + (k \div 15)) \div Pow2(k % 15))
                + ((LimbAt(a, i + (k \div 15) + 1) % Pow2(k % 15)) * Pow2(15 - (k % 15)))]))

\* bit k of a, bit 0 the least significant
BigBit(a, k) == (a[(k \div 15) + 1] \div Pow2(k % 15)) % 2

\* a mod 2^k = 0
BigLowZero(a0, k) == Let(a0, LAMBDA a : BigShl(BigShr(a, k), k) = a)

\* the number of significant bits of a
BigBitLen(a0) ==
    Let(a0, LAMBDA a :
        IF a = BigZero THEN 0
        ELSE Let(Greatest({i \in Limbs : a[i] # 0}), LAMBDA t : (15 * (t - 1)) + BitLen(a[t])))

\* m * 2^e rounded to nearest, ties to even, to p significant bits and to no bits below
\* 2^emin, as <<m', e'>>
RoundBits(m0, e, p, emin) ==
    Let(m0, LAMBDA m :
    Let(Max(BigBitLen(m) - p, emin - e), LAMBDA sh :
        IF sh <= 0 THEN <<m, e>>
        ELSE Let(BigShr(m, sh), LAMBDA q :
                 IF BigBit(m, sh - 1) = 1 /\ (~BigLowZero(m, sh - 1) \/ BigBit(q, 0) = 1)
                 THEN <<BigAdd(q, BigOf(1)), e + sh>>
                 ELSE <<q, e + sh>>)))

\* a number is [s |-> 1 or -1, m |-> a Big, e |-> an integer], of value s * m * 2^e
Num(s, me) == [s |-> s, m |-> me[1], e |-> me[2]]

\* the integer n as a number
NumOfInt(n) == [s |-> IF n < 0 THEN -1 ELSE 1, m |-> BigOf(Abs(n)), e |-> 0]

\* n * 2^-g as a number
Dyadic(n, g) == [s |-> IF n < 0 THEN -1 ELSE 1, m |-> BigOf(Abs(n)), e |-> -g]

IsZero(x) == x.m = BigZero

\* the result of a double operation whose exact value is x
Round53(x0) == Let(x0, LAMBDA x : Num(x.s, RoundBits(x.m, x.e, 53, -1074)))

\* the float32 stored for the double x
Fround(x0) == Let(x0, LAMBDA x : Num(x.s, RoundBits(x.m, x.e, 24, -149)))

\* the exact product
MulExact(x0, y0) ==
    Let(x0, LAMBDA x : Let(y0, LAMBDA y :
        [s |-> x.s * y.s, m |-> BigMul(x.m, y.m), e |-> x.e + y.e]))

\* x * y in double arithmetic
DMul(x, y) == Round53(MulExact(x, y))

\* one step of the binary long division by d: the next quotient bit and remainder
DivStep(d, st) ==
    IF BigCmp(st.rem, d) # -1
    THEN [rem |-> BigShl(BigSub(st.rem, d), 1), q |-> BigAdd(BigShl(st.q, 1), BigOf(1))]
    ELSE [rem |-> BigShl(st.rem, 1), q |-> BigShl(st.q, 1)]

\* n steps from st (n is halved only to keep TLC's evaluation shallow)
RECURSIVE DivLoop(_, _, _)
DivLoop(d, n, st) ==
    IF n = 1 THEN DivStep(d, st)
    ELSE Let(DivLoop(d, n \div 2, st), LAMBDA half : DivLoop(d, n - (n \div 2), half))

\* the 56 leading bits of a / d with a sticky bit below them, for a and d of equal bit length
DivBits(a, d0) ==
    Let(d0, LAMBDA d :
    Let(DivLoop(d, 56, [rem |-> a, q |-> BigZero]), LAMBDA st :
        IF st.rem = BigZero THEN BigShl(st.q, 1) ELSE BigAdd(BigShl(st.q, 1), BigOf(1))))

\* x / y in double arithmetic, for y # 0
DDiv(x0, y0) ==
    Let(x0, LAMBDA x : Let(y0, LAMBDA y :
        IF IsZero(x) THEN x
        ELSE Let(BigBitLen(x.m), LAMBDA la : Let(BigBitLen(y.m), LAMBDA ld :
             Round53([s |-> x.s * y.s,
                      m |-> DivBits(BigShl(x.m, Max(ld - la, 0)), BigShl(y.m, Max(la - ld, 0))),
                      e |-> (x.e - y.e) + (la - ld) - 56])))))

\* Math.floor(x) for 0 <= x < 2^31
DFloor(x0) ==
    Let(x0, LAMBDA x :
        IF x.e >= 0 THEN BigToInt(BigShl(x.m, x.e)) ELSE BigToInt(BigShr(x.m, -x.e)))

\* -1, 0 or 1 as |x| < |y|, |x| = |y| or |x| > |y|
CmpAbs(x0, y0) ==
    Let(x0, LAMBDA x : Let(y0, LAMBDA y :
        IF x.e >= y.e THEN BigCmp(BigShl(x.m, x.e - y.e), y.m)
        ELSE BigCmp(x.m, BigShl(y.m, y.e - x.e))))

(***************************************************************************)
(* convertToMidSide and the recombination of reconstructStereo.  The sums  *)
(* and differences of two float32 values of the ranges used here are exact *)
(* in a double, as is the division by 2; the stores round to float32.      *)
(***************************************************************************)
\* line 18 of part_000: midSignal[i] = (leftSample + rightSample) / 2, in units of 2^-(g+1)
midSample(leftSample, rightSample, g) == RoundF32(leftSample + rightSample, g + 1)

\* the side sample computed as the mid sample is
sideSampleAsMid(leftSample, rightSample, g) == RoundF32(leftSample + rightSample, g + 1)

\* line 19 of part_000: sideSignal[i] = (leftSample - rightSample) / 2
sideSample(leftSample, rightSample, g) == RoundF32(leftSample - rightSample, g + 1)

\* finalMid[i] || 0 (app.js lines 265-266): 0 past the end of the array
orZero(signal, i) == IF i <= Len(signal) THEN signal[i] ELSE 0

\* app.js line 267: left[i] = m + s, with m and s in units of 2^-h
leftSampleOf(m, s, h) == RoundF32(m + s, h)

\* app.js line 268: right[i] = m - s
rightSampleOf(m, s, h) == RoundF32(m - s, h)

MaxStereoLen == 1

\* float32 values n * 2^-g, for g = 25 (1.0 is 2^25) and g = 149 (1 is the least subnormal)
SampleValues == {0, 1, 2, 3, -16777215, Pow2(25), -Pow2(25)}

Units == {25, 149}

StereoLens == 0..MaxStereoLen

InitMS ==
    /\ unit \in Units
    /\ \E n \in StereoLens :
          /\ leftChannel \in [1..n -> SampleValues]
          /\ rightChannel \in [1..n -> SampleValues]
    /\ midSignal = <<>>
    /\ sideSignal = <<>>
    /\ left = <<>>
    /\ right = <<>>
    /\ msPc = "input"
    /\ OthersIdle("ms")

\* convertToMidSide(stereoBuffer)
ConvertToMidSide ==
    /\ msPc = "input"
    /\ midSignal' = [i \in 1..Len(leftChannel) |->
                        midSample(leftChannel[i], rightChannel[i], unit)]
    /\ sideSignal' = [i \in 1..Len(leftChannel) |->
                         sideSample(leftChannel[i], rightChannel[i], unit)]
    /\ msPc' = "split"
    /\ UNCHANGED <<unit, leftChannel, rightChannel, left, right, brrVars, normVars, downVars, predVars, gaussVars, trialVars, decVars, routeVars, appVars>>

\* lines 261-270 of reconstructStereo, with finalMid = midSignal and finalSide = sideSignal
Recombine ==
    /\ msPc = "split"
    /\ \E len \in {Max(Len(midSignal), Len(sideSignal))} :
          /\ left' = [i \in 1..len |->
                         leftSampleOf(orZero(midSignal, i), orZero(sideSignal, i), unit + 1)]
          /\ right' = [i \in 1..len |->
                          rightSampleOf(orZero(midSignal, i), orZero(sideSignal, i), unit + 1)]
    /\ msPc' = "recombined"
    /\ UNCHANGED <<unit, leftChannel, rightChannel, midSignal, sideSignal, brrVars, normVars, downVars, predVars, gaussVars, trialVars, decVars, routeVars, appVars>>

NextMS == ConvertToMidSide \/ Recombine

SpecMS == InitMS /\ [][NextMS]_vars

(***************************************************************************)
(* normalizeCoupled.  The samples are float32 values n / 2^24; the peak,   *)
(* the multiplier and the products are doubles, and the stores back into   *)
(* the Float32Arrays round to float32.                                     *)
(***************************************************************************)
\* the float32 sample n / 2^24 as a number
SampleNum(n) == Dyadic(n, 24)

\* the literal 0.95: the double nearest to 95/100
Literal095 == DDiv(NumOfInt(95), NumOfInt(100))

\* the greatest |signal[i]|, or 0
peakOf(signal) == Greatest({0} \cup {Abs(signal[i]) : i \in 1..Len(signal)})

\* the peak taken over the mid signal alone
midPeakOnly(mid, side) == peakOf(mid)

\* lines 32-47: overallPeak, in units of 2^-24
overallPeak(mid, side) == Max(peakOf(mid), peakOf(side))

\* line 49: overallPeak > 0.95
exceeds095(peak) == CmpAbs(SampleNum(peak), Literal095) = 1

\* line 51: 0.95 / overallPeak
multiplierOf(peak) == DDiv(Literal095, SampleNum(peak))

\* lines 54-59: signal[i] *= multiplier, stored into the Float32Array
scaleSignal(signal, multiplier0) ==
    Let(multiplier0, LAMBDA multiplier :
        [i \in 1..Len(signal) |-> Fround(DMul(SampleNum(signal[i]), multiplier))] \o <<>>)

\* the signal left as it is
keepSignal(signal) == [i \in 1..Len(signal) |-> SampleNum(signal[i])] \o <<>>

MaxNormLen == 1

\* float32 samples in units of 2^-24: 0, the least step, -0.3, the float32 values next
\* below and above 0.95, -1.0, the float32 above 1.0, and one near 2.0
NormValues == {0, 1, -5033165, 15938355, 15938356, -16777216, 16777218, 33554430}

InitNorm ==
    /\ \E n \in 0..MaxNormLen :
          /\ midIn \in [1..n -> NormValues]
          /\ sideIn \in [1..n -> NormValues]
    /\ midOut = <<>>
    /\ sideOut = <<>>
    /\ scaled = FALSE
    /\ normPc = "input"
    /\ OthersIdle("norm")

\* normalizeCoupled(midSignal, sideSignal)
NormalizeCoupled ==
    /\ normPc = "input"
    /\ \E peak \in {overallPeak(midIn, sideIn)} :
          IF exceeds095(peak)
          THEN \E multiplier \in {multiplierOf(peak)} :
                  /\ midOut' = scaleSignal(midIn, multiplier)
                  /\ sideOut' = scaleSignal(sideIn, multiplier)
                  /\ scaled' = TRUE
          ELSE /\ midOut' = keepSignal(midIn)
               /\ sideOut' = keepSignal(sideIn)
               /\ scaled' = FALSE
    /\ normPc' = "normalized"
    /\ UNCHANGED <<midIn, sideIn, brrVars, msVars, downVars, predVars, gaussVars, trialVars, decVars, routeVars, appVars>>

NextNorm == NormalizeCoupled

SpecNorm == InitNorm /\ [][NextNorm]_vars

(***************************************************************************)
(* manualDownsample.  The filtered samples are not computed (they come     *)
(* from Math.sin and Math.cos): sample i of filteredSignal stands for      *)
(* itself, and readIndex keeps the index each sample of result was read    *)
(* from.  The rates and the length are integers; ratio, the quotient and   *)
(* the products are doubles.                                               *)
(***************************************************************************)
\* line 123: originalSampleRate / targetSampleRate
ratioOf(sr, tgt) == DDiv(NumOfInt(sr), NumOfInt(tgt))

\* line 124: Math.floor(signalData.length / ratio)
newLengthOf(len, ratio) == DFloor(DDiv(NumOfInt(len), ratio))

\* line 146: Math.floor(i * ratio)
decimateIndex(i, ratio) == DFloor(DMul(NumOfInt(i), ratio))

MaxRate == 9

MaxSignalLen == 9

InitDown ==
    /\ originalSampleRate \in 1..MaxRate
    /\ targetSampleRate \in 1..MaxRate
    /\ signalLength \in 0..MaxSignalLen
    /\ newLength = 0
    /\ readIndex = <<>>
    /\ downPc = "input"
    /\ OthersIdle("down")

\* manualDownsample(signalData, originalSampleRate, targetSampleRate)
ManualDownsample ==
    /\ downPc = "input"
    /\ \E ratio \in {ratioOf(originalSampleRate, targetSampleRate)} :
       \E n \in {newLengthOf(signalLength, ratio)} :
          /\ newLength' = n
          /\ readIndex' = [i \in 1..n |-> decimateIndex(i - 1, ratio)] \o <<>>
    /\ downPc' = "done"
    /\ UNCHANGED <<originalSampleRate, targetSampleRate, signalLength,
                   brrVars, msVars, normVars, predVars, gaussVars, trialVars, decVars, routeVars, appVars>>

NextDown == ManualDownsample

SpecDown == InitDown /\ [][NextDown]_vars

\* C7: manualDownsample returns floor(length * tgt / sr) samples, sample i read from the
\* in-range index floor(i * sr / tgt) of the filtered signal.
DownsampleLength ==
    downPc = "done" =>
        /\ newLength = (signalLength * targetSampleRate) \div originalSampleRate
        /\ Len(readIndex) = newLength
        /\ \A i \in 0..(newLength - 1) :
              /\ readIndex[i + 1] = (i * originalSampleRate) \div targetSampleRate
              /\ readIndex[i + 1] < signalLength

(***************************************************************************)
(* getPrediction on its own, over the corners of the 16-bit histories.     *)
(***************************************************************************)
HistoryValues == {-32768, -32767, -17477, -1, 0, 1, 8, 21845, 32767}

InitPred ==
    /\ predFilter \in 0..(NumFilters - 1)
    /\ predP1 \in HistoryValues
    /\ predP2 \in HistoryValues
    /\ predOut = 0
    /\ predPc = "input"
    /\ OthersIdle("pred")

\* getPrediction(filter, p1, p2)
GetPrediction ==
    /\ predPc = "input"
    /\ predOut' = getPrediction(predFilter, predP1, predP2)
    /\ predPc' = "done"
    /\ UNCHANGED <<predFilter, predP1, predP2, brrVars, msVars, normVars, downVars, gaussVars, trialVars, decVars, routeVars, appVars>>

NextPred == GetPrediction

SpecPred == InitPred /\ [][NextPred]_vars

\* 64 times the rational prediction of the filter: 0.9375 = 60/64, 1.90625 = 122/64,
\* 1.796875 = 115/64, 0.8125 = 52/64
Prediction64 ==
    CASE predFilter = 0 -> 0
      [] predFilter = 1 -> 60 * predP1
      [] predFilter = 2 -> (122 * predP1) - (60 * predP2)
      [] predFilter = 3 -> (115 * predP1) - (52 * predP2)

\* r is the rational prediction rounded as Math.round does: r <= prediction + 1/2 < r + 1
IsRounded(r) == 128 * r <= (2 * Prediction64) + 64 /\ (2 * Prediction64) + 64 < 128 * (r + 1)

\* C8: getPrediction returns an integer of [-32768, 32767] that differs from the rounded
\* rational prediction by a multiple of 2^16 (its low 16 bits, sign-extended).
PredictorWrapLaw ==
    predPc = "done" =>
        /\ predOut \in -32768..32767
        /\ \E k \in -2..2 : IsRounded(predOut + (65536 * k))

\* a prediction beyond the 16-bit range, which wraps
PredictorWrapWitness ==
    /\ predPc = "done"
    /\ predFilter = 2
    /\ Prediction64 > 64 * 32767
    /\ predOut < 0

(***************************************************************************)
(* applyGaussFilter.  The samples are n / 2^18; c0 = 372/2048 and          *)
(* c1 = 1304/2048, so a weighted sum is an integer in units of 2^-29, exact *)
(* in a double, and the store into the Float32Array rounds it.             *)
(***************************************************************************)
\* the first sample with the neighbour's weight left out
gaussFirstUnfolded(pcmData) == RoundF32((1304 * pcmData[1]) + (372 * pcmData[2]), 29)

\* line 261: (c1 + c0) * pcmData[0] + c0 * pcmData[1]
gaussFirst(pcmData) == RoundF32((1676 * pcmData[1]) + (372 * pcmData[2]), 29)

\* line 265: c0 * pcmData[i - 1] + c1 * pcmData[i] + c0 * pcmData[i + 1], for element i
gaussMiddle(pcmData, i) ==
    RoundF32((372 * pcmData[i - 1]) + (1304 * pcmData[i]) + (372 * pcmData[i + 1]), 29)

\* line 271: c0 * pcmData[len - 2] + (c1 + c0) * pcmData[len - 1]
gaussLast(pcmData) ==
    RoundF32((372 * pcmData[Len(pcmData) - 1]) + (1676 * pcmData[Len(pcmData)]), 29)

\* pcmData.slice(), in units of 2^-29
gaussCopy(pcmData) == [i \in 1..Len(pcmData) |-> 2048 * pcmData[i]]

applyGaussFilter(pcmData) ==
    IF Len(pcmData) < 2 THEN gaussCopy(pcmData)
    ELSE [i \in 1..Len(pcmData) |->
             IF i = 1 THEN gaussFirst(pcmData)
             ELSE IF i = Len(pcmData) THEN gaussLast(pcmData)
             ELSE gaussMiddle(pcmData, i)]

MaxGaussLen == 3

\* samples in units of 2^-18: 0, the least step either way, an odd value, 1.0 and -1.0
GaussValues == {0, 1, -1, 174763, Pow2(18), -Pow2(18)}

InitGauss ==
    /\ \E n \in 0..MaxGaussLen : gaussIn \in [1..n -> GaussValues]
    /\ gaussOut = <<>>
    /\ gaussPc = "input"
    /\ OthersIdle("gauss")

\* applyGaussFilter(pcmData)
ApplyGaussFilter ==
    /\ gaussPc = "input"
    /\ gaussOut' = applyGaussFilter(gaussIn) \o <<>>
    /\ gaussPc' = "done"
    /\ UNCHANGED <<gaussIn, brrVars, msVars, normVars, downVars, predVars, trialVars, decVars, routeVars, appVars>>

NextGauss == ApplyGaussFilter

SpecGauss == InitGauss /\ [][NextGauss]_vars

\* sample i of the input, the edge sample standing in for a missing neighbour
Clamped(i) == gaussIn[IF i < 1 THEN 1 ELSE IF i > Len(gaussIn) THEN Len(gaussIn) ELSE i]

\* 2048 times the 3-tap weighted sum at i, in units of 2^-29
WeightedSum(i) == (372 * Clamped(i - 1)) + (1304 * Clamped(i)) + (372 * Clamped(i + 1))

\* C9: applyGaussFilter returns an array of the input's length; for length < 2 a copy;
\* otherwise sample i is the float32 nearest to the 3-tap sum with weights 372/2048,
\* 1304/2048, 372/2048 (the missing neighbour's weight on the edge sample), and no
\* output exceeds max|x| in magnitude.
GaussFilterBounds ==
    gaussPc = "done" =>
        /\ Len(gaussOut) = Len(gaussIn)
        /\ Len(gaussIn) < 2 => \A i \in 1..Len(gaussIn) : gaussOut[i] = 2048 * gaussIn[i]
        /\ Len(gaussIn) >= 2 =>
              \A i \in 1..Len(gaussIn) :
                  /\ IsF32(gaussOut[i], 29)
                  /\ Abs(gaussOut[i] - WeightedSum(i)) <= Abs(WeightedSum(i)) \div Pow2(24)
        /\ \A i \in 1..Len(gaussOut) :
              Abs(gaussOut[i]) <= 2048 * Greatest({Abs(gaussIn[j]) : j \in 1..Len(gaussIn)})

\* a filtered signal of three samples whose middle sum had to be rounded
GaussFilterWitness ==
    /\ gaussPc = "done" /\ Len(gaussIn) = 3
    /\ gaussOut[2] # WeightedSum(2)
    /\ gaussIn[1] # gaussIn[2]

(***************************************************************************)
(* Properties of normalizeCoupled, stated in exact arithmetic: 0.95 is     *)
(* 19/20, and a sample n of the input is n / 2^24.                         *)
(***************************************************************************)
\* | |x| - |y| | as a number
AbsDiff(x0, y0) ==
    Let(x0, LAMBDA x : Let(y0, LAMBDA y :
    Let(IF x.e < y.e THEN x.e ELSE y.e, LAMBDA e :
    Let(BigShl(x.m, x.e - e), LAMBDA a : Let(BigShl(y.m, y.e - e), LAMBDA b :
        [s |-> 1, m |-> IF BigCmp(a, b) = -1 THEN BigSub(b, a) ELSE BigSub(a, b), e |-> e])))))

\* the peak of the two input signals, in units of 2^-24
InputPeak ==
    Greatest({0} \cup {Abs(midIn[i]) : i \in 1..Len(midIn)}
                 \cup {Abs(sideIn[i]) : i \in 1..Len(sideIn)})

\* |y| <= 0.95
Within095(y) == CmpAbs(MulExact(NumOfInt(20), y), NumOfInt(19)) # 1

\* y is (0.95 / peak) * (n / 2^24) to within a relative 2^-23, and of n's sign:
\* | 20 * peak * |y| - 19 * |n| | <= 19 * |n| * 2^-23
ScaledBy(y, n, peak) ==
    IF n = 0 THEN IsZero(y)
    ELSE /\ y.s = (IF n < 0 THEN -1 ELSE 1)
         /\ CmpAbs(AbsDiff(MulExact(NumOfInt(20 * peak), y), NumOfInt(19 * Abs(n))),
                   [s |-> 1, m |-> BigOf(19 * Abs(n)), e |-> -23]) # 1

\* y is the input sample n / 2^24
SameSample(y, n) == CmpAbs(y, SampleNum(n)) = 0 /\ (n # 0 => y.s = (IF n < 0 THEN -1 ELSE 1))

\* C6: after normalizeCoupled no sample of either signal exceeds 0.95 in magnitude; if the
\* input peak exceeded 0.95 every sample of both signals is its input times the one
\* multiplier 0.95/peak (< 1), up to rounding, and otherwise both signals are unchanged.
CoupledNormalization ==
    normPc = "normalized" =>
        /\ Len(midOut) = Len(midIn) /\ Len(sideOut) = Len(sideIn)
        /\ \A i \in 1..Len(midOut) : Within095(midOut[i])
        /\ \A i \in 1..Len(sideOut) : Within095(sideOut[i])
        /\ IF 20 * InputPeak > 19 * Pow2(24)
           THEN /\ scaled
                /\ \A i \in 1..Len(midIn) : ScaledBy(midOut[i], midIn[i], InputPeak)
                /\ \A i \in 1..Len(sideIn) : ScaledBy(sideOut[i], sideIn[i], InputPeak)
           ELSE /\ ~scaled
                /\ \A i \in 1..Len(midIn) : SameSample(midOut[i], midIn[i])
                /\ \A i \in 1..Len(sideIn) : SameSample(sideOut[i], sideIn[i])

\* both signals were scaled, the peak being in the side signal and the mid sample below 0.95
CoupledNormalizationWitness ==
    /\ normPc = "normalized" /\ scaled
    /\ Len(midIn) >= 1 /\ Len(sideIn) >= 1
    /\ midIn[1] # 0 /\ 20 * Abs(midIn[1]) < 19 * Pow2(24)
    /\ Abs(sideIn[1]) = InputPeak
    /\ ~SameSample(midOut[1], midIn[1])

(***************************************************************************)
(* Properties of the Mid/Side split.  left and right are in units of       *)
(* 2^-(unit+1), so that the input sample n reads 2 * n there.              *)
(***************************************************************************)
\* C5 as stated: recombining the split channels gives back (L, R) sample for sample.
MidSideRoundTrip ==
    msPc = "recombined" =>
        /\ Len(left) = Len(leftChannel) /\ Len(right) = Len(rightChannel)
        /\ \A i \in 1..Len(leftChannel) :
              left[i] = 2 * leftChannel[i] /\ right[i] = 2 * rightChannel[i]

\* 2^-22 * max(|l|, |r|) + 2^-148, in units of 2^-(unit+1), rounded down
RoundTripTolerance(l, r) ==
    (Max(Abs(l), Abs(r)) \div Pow2(21)) + (IF unit >= 147 THEN Pow2(unit - 147) ELSE 0)

\* C5 as amended: the stores into the Float32Arrays round.  The round trip gives back
\* (L, R) exactly wherever (L[i]+R[i])/2 and (L[i]-R[i])/2 are float32 values, and in
\* every case L'[i] and R'[i] are within 2^-22 * max(|L[i]|, |R[i]|) + 2^-148 of L[i]
\* and R[i] (for finite samples below 2^127 in magnitude).
MidSideRoundTripRounded ==
    msPc = "recombined" =>
        /\ Len(left) = Len(leftChannel) /\ Len(right) = Len(rightChannel)
        /\ \A i \in 1..Len(leftChannel) :
              /\ (/\ midSignal[i] = leftChannel[i] + rightChannel[i]
                  /\ sideSignal[i] = leftChannel[i] - rightChannel[i])
                    => (left[i] = 2 * leftChannel[i] /\ right[i] = 2 * rightChannel[i])
              /\ Abs(left[i] - (2 * leftChannel[i]))
                    <= RoundTripTolerance(leftChannel[i], rightChannel[i])
              /\ Abs(right[i] - (2 * rightChannel[i]))
                    <= RoundTripTolerance(leftChannel[i], rightChannel[i])

\* a recombined pair whose left sample came back exactly and whose right sample did not
MidSideWitness ==
    /\ msPc = "recombined"
    /\ \E i \in 1..Len(rightChannel) :
          /\ leftChannel[i] # rightChannel[i]
          /\ left[i] = 2 * leftChannel[i]
          /\ right[i] # 2 * rightChannel[i]

(***************************************************************************)
(* The codec as a state machine: a signal is encoded by one encodeBRR call *)
(* or, split at a multiple of 16 samples, by two successive calls whose    *)
(* outputs are concatenated; the stream is then decoded.                   *)
(***************************************************************************)
MaxBlocks == 2

\* one period of each test waveform, in quarters of the amplitude
Wave(shape, i) ==
    CASE shape = "dc" -> 4
      [] shape = "sine" -> <<0, 3, 4, 3, 0, -3, -4, -3>>[(i % 8) + 1]
      [] shape = "alt" -> IF i % 2 = 0 THEN 4 ELSE -4
      [] shape = "saw" -> (i % 8) - 4
      [] shape = "pulse" -> IF i % 16 < 2 THEN 4 ELSE 0

Shapes == {"dc", "sine", "alt", "saw", "pulse"}

\* amplitudes in units of 1/32768: silence, quiet, moderate, full scale (1.0), overdriven
Amplitudes == {0, 40, 1000, 32768, 40000}

\* empty, one short of a block, whole blocks, and whole blocks with one sample over
Lengths == {15} \cup {n \in 0..(16 * MaxBlocks) : n % 16 \in {0, 1}}

Signal(shape, amp, len) == [i \in 1..len |-> (amp * Wave(shape, i - 1)) \div 4]

Inputs == {Signal(shape, amp, len) : shape \in Shapes, amp \in Amplitudes, len \in Lengths}

InitBrr ==
    /\ float32PcmData \in Inputs
    /\ cursor = 0
    /\ brrStream = <<>>
    /\ calls = <<>>
    /\ encLog = <<>>
    /\ decoded = <<>>
    /\ brrPc = "encode"
    /\ OthersIdle("brr")

\* encodeBRR(float32PcmData.subarray(cursor, cursor + n))
EncodeBRR(n) ==
    /\ brrPc = "encode"
    /\ \E log \in {encodeRun(SubSeq(float32PcmData, cursor + 1, cursor + n))} :
          /\ brrStream' = brrStream \o setEnd(blocksOf(log) \o <<>>)
          /\ encLog' = encLog \o log
          /\ calls' = Append(calls, [samples |-> n, blocks |-> Len(log)])
    /\ cursor' = cursor + n
    /\ brrPc' = IF cursor + n = Len(float32PcmData) THEN "decode" ELSE "encode"
    /\ UNCHANGED <<float32PcmData, decoded, msVars, normVars, downVars, predVars, gaussVars, trialVars, decVars, routeVars, appVars>>

\* the whole of what is left, in one call
EncodeRest == EncodeBRR(Len(float32PcmData) - cursor)

\* the first 16k samples of a longer signal, as the first of two calls
EncodeFirstPart ==
    /\ calls = <<>>
    /\ \E k \in 1..MaxBlocks :
          /\ 16 * k < Len(float32PcmData)
          /\ EncodeBRR(16 * k)

DecodeBRR ==
    /\ brrPc = "decode"
    /\ decoded' = decodeBRR(brrStream)
    /\ brrPc' = "done"
    /\ UNCHANGED <<float32PcmData, cursor, brrStream, calls, encLog, msVars, normVars, downVars, predVars, gaussVars, trialVars, decVars, routeVars, appVars>>

NextBrr == EncodeRest \/ EncodeFirstPart \/ DecodeBRR

SpecBrr == InitBrr /\ [][NextBrr]_vars

(***************************************************************************)
(* Properties of the codec.                                                *)
(***************************************************************************)
EndBit(block) == block[1] % 2

LoopBit(block) == (block[1] \div 2) % 2

\* blocks of brrStream returned by the calls before call c
RECURSIVE BlocksBefore(_)
BlocksBefore(c) == IF c = 1 THEN 0 ELSE BlocksBefore(c - 1) + calls[c - 1].blocks

\* the indices in brrStream of the last block of each call that returned blocks
LastBlocks == {BlocksBefore(c) + calls[c].blocks : c \in {d \in 1..Len(calls) : calls[d].blocks > 0}}

AllEncoded == brrPc \in {"decode", "done"}

HeaderBitLaw ==
    \A j \in 1..Len(brrStream) :
        /\ EndBit(brrStream[j]) = (IF j \in LastBlocks THEN 1 ELSE 0)
        /\ LoopBit(brrStream[j]) = 0

\* a single call returned several blocks and the search chose a filter with bit 0 set
HeaderBitWitness ==
    /\ brrPc = "done" /\ Len(calls) = 1 /\ Len(brrStream) >= 2
    /\ \E j \in 1..Len(brrStream) : filterOf(brrStream[j][1]) % 2 = 1

\* C3: a call given N samples returns ceil(N/16) blocks, each of 9 bytes, and decodeBRR
\* returns 16 samples per block.
BlockSizeLaw ==
    /\ \A c \in 1..Len(calls) : calls[c].blocks = (calls[c].samples + 15) \div 16
    /\ Len(brrStream) = BlocksBefore(Len(calls) + 1)
    /\ \A j \in 1..Len(brrStream) :
          /\ DOMAIN brrStream[j] = 1..9
          /\ \A b \in 1..9 : brrStream[j][b] \in 0..255
    /\ brrPc = "done" => Len(decoded) = 16 * Len(brrStream)

\* one call on a signal whose length is not a multiple of 16, decoded
BlockSizeWitness ==
    /\ brrPc = "done" /\ Len(calls) = 1
    /\ Len(float32PcmData) % 16 # 0 /\ Len(float32PcmData) > 16
    /\ Len(decoded) > Len(float32PcmData)

\* the trial error (16 times the MSE) of candidate (s, f) for the block of log entry e
TrialError(e, s, f) == processBlock(e.pcmBlock, s, f, e.p1, e.p2, FALSE).error

\* the written (shift, filter) is no worse than any candidate, and comes first among the
\* candidates that equal it
Optimal(e) ==
    \E best \in {TrialError(e, shiftOf(e.block[1]), filterOf(e.block[1]))} :
        \A s \in 0..12 : \A f \in 0..3 :
            \E trial \in {TrialError(e, s, f)} :
                /\ ~WLess(trial, best)
                /\ trial = best =>
                      (4 * s) + f >= (4 * shiftOf(e.block[1])) + filterOf(e.block[1])

\* C4: for every block given to findAndEncodeBlock with its carried-in state, the written
\* (shift, filter) has a trial MSE no larger than any candidate of {0..12} x {0..3} and is
\* the first of the minimal ones in the order shift outer, filter inner.
EncoderOptimality == \A j \in 1..Len(encLog) : Optimal(encLog[j])

\* a block with a non-zero carried-in state for which a later candidate ties the written one
EncoderOptimalityWitness ==
    \E j \in 1..Len(encLog) :
        /\ encLog[j].p1 # 0
        /\ (4 * shiftOf(encLog[j].block[1])) + filterOf(encLog[j].block[1]) > 0
        /\ \E s \in 0..12 : \E f \in 0..3 :
              /\ (4 * s) + f > (4 * shiftOf(encLog[j].block[1])) + filterOf(encLog[j].block[1])
              /\ TrialError(encLog[j], s, f)
                    = TrialError(encLog[j], shiftOf(encLog[j].block[1]),
                                 filterOf(encLog[j].block[1]))

Silent == Len(float32PcmData) >= 1 /\ \A i \in 1..Len(float32PcmData) : float32PcmData[i] = 0

\* C10: for an all-zero input of length >= 1 every block has shift 0, filter 0 and zero
\* data bytes, END is set only on the last block of a call, and the decoded samples are
\* all zero.
SilenceLaw ==
    Silent =>
        /\ \A j \in 1..Len(brrStream) :
              /\ shiftOf(brrStream[j][1]) = 0 /\ filterOf(brrStream[j][1]) = 0
              /\ \A b \in 2..9 : brrStream[j][b] = 0
              /\ EndBit(brrStream[j]) = 1 => j \in LastBlocks
        /\ AllEncoded => Len(brrStream) >= 1 /\ EndBit(brrStream[Len(brrStream)]) = 1
        /\ brrPc = "done" =>
              /\ Len(decoded) >= Len(float32PcmData)
              /\ \A i \in 1..Len(decoded) : decoded[i] = 0

\* silence of more than one block, encoded by one call and decoded
SilenceWitness ==
    /\ Silent /\ Len(float32PcmData) > 16
    /\ brrPc = "done" /\ Len(calls) = 1 /\ Len(decoded) >= 32

\* C11: for every block written by the encoder the decoder parses from byte 0 the shift
\* and filter the search chose, with or without END, and the sign-extended nibble it
\* reads at position i (high nibble of byte 1 + i/2 for even i, low for odd i) is the
\* quantizedNibble, in [-8, 7], the encoder produced for sample i.
BlockLayoutRoundTrip ==
    /\ Len(brrStream) = Len(encLog)
    /\ \A j \in 1..Len(brrStream) :
          /\ shiftOf(brrStream[j][1]) = encLog[j].bestShift
          /\ filterOf(brrStream[j][1]) = encLog[j].bestFilter
          /\ Len(encLog[j].nibbles) = 16
          /\ \A i \in 0..15 :
                /\ encLog[j].nibbles[i + 1] \in -8..7
                /\ signExtend(nibbleAt(brrStream[j], i)) = encLog[j].nibbles[i + 1]

\* a stream with a block without END and a block with END, both with a non-zero shift
\* and filter, and with a negative nibble next to a different one in the same byte
BlockLayoutWitness ==
    /\ brrPc = "done" /\ Len(brrStream) = Len(encLog)
    /\ \E j, k \in 1..Len(brrStream) :
          /\ EndBit(brrStream[j]) = 0 /\ EndBit(brrStream[k]) = 1
          /\ encLog[j].bestShift > 0 /\ encLog[j].bestFilter > 0
          /\ encLog[k].bestShift > 0 /\ encLog[k].bestFilter > 0
          /\ \E i \in {0, 2, 4, 6, 8, 10, 12, 14} :
                /\ encLog[k].nibbles[i + 1] < 0
                /\ encLog[k].nibbles[i + 2] # encLog[k].nibbles[i + 1]

\* the int16 samples the decoder returns for block j
DecodedBlock(j) == SubSeq(decoded, (16 * (j - 1)) + 1, 16 * j)

\* C13: the int16 samples decodeBRR produces from the blocks of encodeBRR equal, sample
\* for sample, the wrappedReconstructedSample values the encoder computed in write mode.
EncoderDecoderAgreement ==
    (brrPc = "done" /\ Len(calls) = 1) =>
        \A j \in 1..Len(encLog) : DecodedBlock(j) = encLog[j].recon

(***************************************************************************)
(* findAndEncodeBlock on its own: any int16 block with any int16 state     *)
(* carried in, among them states no encodeBRR run of the signals above     *)
(* reaches.                                                                *)
(***************************************************************************)
\* a pcmBlock of 16 int16 samples with the peak amp
BlockOf(shape, amp) == [i \in 1..16 |-> (amp * Wave(shape, i - 1)) \div 4] \o <<>>

TrialBlocks == {BlockOf(shape, amp) : shape \in Shapes, amp \in {1000, 32767}}

TrialStates == {-32768, -2, 0, 32767}

InitFind ==
    /\ trialBlock \in TrialBlocks
    /\ trialP1 \in TrialStates
    /\ trialP2 \in TrialStates \ {-2}
    /\ trialResult = <<>>
    /\ trialPc = "input"
    /\ OthersIdle("trial")

\* findAndEncodeBlock(pcmBlock, p1, p2)
FindAndEncodeBlock ==
    /\ trialPc = "input"
    /\ trialResult' = findAndEncodeBlock(trialBlock, trialP1, trialP2)
    /\ trialPc' = "done"
    /\ UNCHANGED <<trialBlock, trialP1, trialP2, brrVars, msVars, normVars, downVars,
                   predVars, gaussVars, decVars, routeVars, appVars>>

NextFind == FindAndEncodeBlock

SpecFind == InitFind /\ [][NextFind]_vars

\* whether the trial of candidate (s, f) took the branch of line 92 for some sample
TrialOutOfRange(s, f) == processBlock(trialBlock, s, f, trialP1, trialP2, FALSE).outOfRange

\* C14: a candidate (shift, filter) with a reconstructed sample clampedHalf * 2 outside
\* [-32768, 32767] is never the one the search selects, so the write-mode run never takes
\* the out-of-range branch.
OutOfRangeTrialsLose ==
    trialPc = "done" =>
        /\ \A s \in 0..(NumShifts - 1) : \A f \in 0..(NumFilters - 1) :
              TrialOutOfRange(s, f) =>
                  ~(s = trialResult.bestShift /\ f = trialResult.bestFilter)
        /\ ~trialResult.outOfRange

\* a block some of whose candidates reconstruct a sample outside the int16 range
OutOfRangeWitness ==
    /\ trialPc = "done"
    /\ \E s \in 0..(NumShifts - 1) : \E f \in 0..(NumFilters - 1) : TrialOutOfRange(s, f)
    /\ trialResult.bestFilter # 0

(***************************************************************************)
(* decodeBRR on its own: any 9-byte blocks, whether or not an encoder      *)
(* writes them.                                                            *)
(***************************************************************************)
MaxDecBlocks == 2

\* headers with the shifts 12, 13 and 15, every filter, and END and LOOP clear or set
DecHeaders == {(16 * s) + (4 * f) + (IF (s + f) % 2 = 0 THEN 0 ELSE 3) :
                   s \in {12, 13, 15}, f \in 0..3}

\* the data byte of a block, repeated: nibbles (0, 0), (7, 7), (-8, -8) and (-1, 1)
DecBytes == {0, 119, 136, 241}

DecBlocksOf == {<<h, b, b, b, b, b, b, b, b>> : h \in DecHeaders, b \in DecBytes}

InitDec ==
    /\ \E n \in 1..MaxDecBlocks : decBlocks \in [1..n -> DecBlocksOf]
    /\ decRun = [pcmSamples |-> <<>>, trace |-> <<>>, p1 |-> 0, p2 |-> 0]
    /\ decPc = "input"
    /\ OthersIdle("dec")

\* decodeBRR(brrBlocks)
DecodeBlocks ==
    /\ decPc = "input"
    /\ decRun' = decodeRun(decBlocks)
    /\ decPc' = "done"
    /\ UNCHANGED <<decBlocks, brrVars, msVars, normVars, downVars, predVars, gaussVars,
                   trialVars, routeVars, appVars>>

NextDec == DecodeBlocks

SpecDec == InitDec /\ [][NextDec]_vars

\* C15: for any 9-byte blocks, after every decoded sample p1 and p2 lie in
\* [-16384, 16383] and the emitted int16 sample is wrap16(2 * p1), so that every output
\* float, the sample over 32768, lies in [-1, 1).
DecoderStateInvariant ==
    decPc = "done" =>
        /\ Len(decRun.pcmSamples) = 16 * Len(decBlocks)
        /\ Len(decRun.trace) = 16 * Len(decBlocks)
        /\ \A i \in 1..Len(decRun.trace) :
              /\ decRun.trace[i][1] \in -16384..16383
              /\ decRun.trace[i][2] \in -16384..16383
              /\ decRun.pcmSamples[i] = wrap16(2 * decRun.trace[i][1])
              /\ -32768 <= decRun.pcmSamples[i] /\ decRun.pcmSamples[i] < 32768

\* a block with a shift above 12 and filter 1 whose history climbs past 16383 and wraps:
\* a negative p1 after a positive one although the nibble is not negative
DecoderWrapWitness ==
    /\ decPc = "done"
    /\ shiftOf(decBlocks[1][1]) > 12 /\ filterOf(decBlocks[1][1]) = 1
    /\ \E i \in 1..15 :
          /\ signExtend(nibbleAt(decBlocks[1], i)) >= 0
          /\ decRun.trace[i + 1][2] > 0
          /\ decRun.trace[i + 1][1] < 0

(***************************************************************************)
(* downsampleSignal: the router, with the length of the array each path    *)
(* returns.  nativeDownsample renders an OfflineAudioContext of newLength  *)
(* frames, and that is the length of the channel data it returns.          *)
(***************************************************************************)
\* Math.ceil of a number >= 0
DCeil(x0) ==
    Let(x0, LAMBDA x :
        IF x.e >= 0 THEN BigToInt(BigShl(x.m, x.e))
        ELSE BigToInt(BigShr(x.m, -x.e)) + (IF BigLowZero(x.m, -x.e) THEN 0 ELSE 1))

\* line 162: sourceBuffer.duration, length / sampleRate
durationOf(len, sr) == DDiv(NumOfInt(len), NumOfInt(sr))

\* line 163: Math.ceil(duration * targetSampleRate)
nativeLengthOf(len, sr, tgt) == DCeil(DMul(durationOf(len, sr), NumOfInt(tgt)))

\* lines 122-125: the length of manualDownsample's result
manualLengthOf(len, sr, tgt) == newLengthOf(len, ratioOf(sr, tgt))

\* line 72: targetSampleRate < 8000
usesManual(tgt) == tgt < 8000

\* the rates of the page's selectors on either side of the threshold, and the threshold
RouteTargets == {2000, 4000, 6000, 8000, 10000, 32000, 44000, 48000}

RouteOriginals == {44100, 48000}

RouteLengths == {1, 2, 12, 100, 441, 1000, 1323}

InitRoute ==
    /\ routeLength \in RouteLengths
    /\ routeOriginalSr \in RouteOriginals
    /\ routeTargetSr \in RouteTargets
    /\ routePath = "none"
    /\ routeNewLength = 0
    /\ routePc = "input"
    /\ OthersIdle("route")

\* downsampleSignal(signalData, originalSampleRate, targetSampleRate), until its promise
\* resolves
DownsampleSignal ==
    /\ routePc = "input"
    /\ IF usesManual(routeTargetSr)
       THEN /\ routePath' = "manual"
            /\ routeNewLength' = manualLengthOf(routeLength, routeOriginalSr, routeTargetSr)
       ELSE /\ routePath' = "native"
            /\ routeNewLength' = nativeLengthOf(routeLength, routeOriginalSr, routeTargetSr)
    /\ routePc' = "done"
    /\ UNCHANGED <<routeLength, routeOriginalSr, routeTargetSr, brrVars, msVars, normVars,
                   downVars, predVars, gaussVars, trialVars, decVars, appVars>>

NextRoute == DownsampleSignal

SpecRoute == InitRoute /\ [][NextRoute]_vars

\* C16 as stated: downsampleSignal takes the internal FIR path exactly when
\* targetSr < 8000 and the host path otherwise, and on both paths the result has
\* floor(N * targetSr / originalSr) samples.
RouterLengthLaw ==
    routePc = "done" =>
        /\ routePath = (IF routeTargetSr < 8000 THEN "manual" ELSE "native")
        /\ routeNewLength = (routeLength * routeTargetSr) \div routeOriginalSr

(***************************************************************************)
(* The page (src/app.js): its handlers, each split at its awaits.  A       *)
(* handler runs from an event, or from the resolution of the promise it    *)
(* awaits, to its next await or its end; handlers interleave only there.   *)
(* The play and download buttons are inside resultsArea and can be clicked *)
(* only while it is shown; files can be dropped and rates selected at any  *)
(* time.  Arrays of the model are never empty, and <<>> stands for null.   *)
(***************************************************************************)
MaxFileTasks == 2

MaxPlayTasks == 2

Null == <<>>

\* two stereo files, a mono file, one that decodeAudioData rejects, one that is not audio
Files == {"a", "b", "mono", "corrupt", "text"}

Channels == {"mid", "side"}

\* lines 45-46 give 32000 and 4000; one more rate per selector, across the 8000 threshold
MidRates == {32000, 6000}

SideRates == {4000, 8000}

RateList == <<4000, 6000, 8000, 32000>>

FileList == <<"a", "b">>

ChannelList == <<"mid", "side">>

\* what handleFile hands to encodeBRR for a channel of a stereo file at a target rate:
\* one sample per 2000 Hz of a waveform that differs with the file and the channel
downsampledOf(f, c, rate) ==
    Signal(IF c = "mid" THEN "sine" ELSE "saw", IF f = "a" THEN 1000 ELSE 32768,
           rate \div 2000)

\* encodeBRR of each of these signals
EncodedTable ==
    [fi \in 1..2 |->
        [ci \in 1..2 |->
            [ri \in 1..4 |-> encodeBRR(downsampledOf(FileList[fi], ChannelList[ci],
                                                     RateList[ri]))] \o <<>>] \o <<>>] \o <<>>

IndexIn(list, x) == CHOOSE i \in 1..Len(list) : list[i] = x

\* lines 115-116: encodeBRR(midDownsampled), encodeBRR(sideDownsampled)
encodedOf(f, c, rate) ==
    EncodedTable[IndexIn(FileList, f)][IndexIn(ChannelList, c)][IndexIn(RateList, rate)]

\* lines 128-136, stopPlayback: what becomes of sources
stoppedSources(srcs) ==
    IF currentlyPlayingSource # 0
    THEN [srcs EXCEPT ![currentlyPlayingSource] =
              [@ EXCEPT !.state = IF @ = "playing" THEN "stopped" ELSE @,
                        !.onended = FALSE]]
    ELSE srcs

\* lines 172-176 and 194-198: a new source with onended set, started
startedSource(srcs, c) == Append(srcs, [channel |-> c, state |-> "playing", onended |-> TRUE])

\* lines 155 and 246-247: decodedPcm with the cache of channel c filled if it is null
cachedPcm(pcm, c) ==
    IF pcm[c] = Null THEN [pcm EXCEPT ![c] = decodeBRR(encodedBrr[c])] ELSE pcm

rateOf(c) == IF c = "mid" THEN midRate ELSE sideRate

InitApp ==
    /\ currentFileObject = "none"
    /\ decodedAudioBuffer = Null
    /\ encodedBrr = [mid |-> Null, side |-> Null]
    /\ decodedPcm = [mid |-> Null, side |-> Null]
    /\ currentlyPlayingSource = 0
    /\ playingChannel = "null"
    /\ resultsShown = FALSE
    /\ midRate = 32000
    /\ sideRate = 4000
    /\ fileTasks = <<>>
    /\ playTasks = <<>>
    /\ sources = <<>>
    /\ producedBy = [mid |-> 0, side |-> 0, buffer |-> 0]
    /\ OthersIdle("app")

codecVars == <<brrVars, msVars, normVars, downVars, predVars, gaussVars, trialVars, decVars,
               routeVars>>

\* lines 74-91, handleFile(file) up to await file.arrayBuffer(), with the selectors at
\* mid and side
handleFile(file, mid, side) ==
    IF file = "text"
    THEN UNCHANGED <<currentFileObject, decodedAudioBuffer, encodedBrr, decodedPcm,
                     currentlyPlayingSource, playingChannel, resultsShown, fileTasks,
                     playTasks, sources, producedBy>>
    ELSE /\ Len(fileTasks) < MaxFileTasks
         /\ currentFileObject' = file
         /\ sources' = stoppedSources(sources)
         /\ currentlyPlayingSource' = 0
         /\ playingChannel' = "null"
         /\ resultsShown' = FALSE
         /\ decodedPcm' = [mid |-> Null, side |-> Null]
         /\ fileTasks' = Append(fileTasks, [file |-> file, targetMidSr |-> mid,
                                            targetSideSr |-> side, pc |-> "read"])
         /\ UNCHANGED <<decodedAudioBuffer, encodedBrr, playTasks, producedBy>>

\* the drop and change listeners of lines 52 and 54
DropFile(f) ==
    /\ handleFile(f, midRate, sideRate)
    /\ UNCHANGED <<midRate, sideRate, codecVars>>

\* a selector changed by the user, then handleSettingChange (lines 65-71)
SettingChange(c, rate) ==
    /\ rate # rateOf(c)
    /\ midRate' = IF c = "mid" THEN rate ELSE midRate
    /\ sideRate' = IF c = "side" THEN rate ELSE sideRate
    /\ IF currentFileObject # "none"
       THEN handleFile(currentFileObject, midRate', sideRate')
       ELSE UNCHANGED <<currentFileObject, decodedAudioBuffer, encodedBrr, decodedPcm,
                        currentlyPlayingSource, playingChannel, resultsShown, fileTasks,
                        playTasks, sources, producedBy>>
    /\ UNCHANGED codecVars

\* file.arrayBuffer() resolved: lines 91-94 and 304-305, up to await decodeAudioData
ResumeRead(k) ==
    /\ fileTasks[k].pc = "read"
    /\ fileTasks' = [fileTasks EXCEPT ![k].pc = "decode"]
    /\ UNCHANGED <<currentFileObject, decodedAudioBuffer, encodedBrr, decodedPcm,
                   currentlyPlayingSource, playingChannel, resultsShown, midRate, sideRate,
                   playTasks, sources, producedBy, codecVars>>

\* decodeAudioData settled: lines 306-311 and 94-110, up to await Promise.all; a rejection
\* goes to the catch of line 121, a file that is not stereo returns at line 95
ResumeDecode(k) ==
    /\ fileTasks[k].pc = "decode"
    /\ IF fileTasks[k].file = "corrupt"
       THEN /\ fileTasks' = [fileTasks EXCEPT ![k].pc = "done"]
            /\ UNCHANGED <<decodedAudioBuffer, producedBy>>
       ELSE IF fileTasks[k].file = "mono"
       THEN /\ fileTasks' = [fileTasks EXCEPT ![k].pc = "done"]
            /\ decodedAudioBuffer' = Null
            /\ producedBy' = [producedBy EXCEPT !.buffer = k]
       ELSE /\ fileTasks' = [fileTasks EXCEPT ![k].pc = "downsample"]
            /\ decodedAudioBuffer' = <<fileTasks[k].file>>
            /\ producedBy' = [producedBy EXCEPT !.buffer = k]
    /\ UNCHANGED <<currentFileObject, encodedBrr, decodedPcm, currentlyPlayingSource,
                   playingChannel, resultsShown, midRate, sideRate, playTasks, sources,
                   codecVars>>

\* both downsampleSignal promises resolved: lines 112-113, up to the 50 ms timer
ResumeDownsample(k) ==
    /\ fileTasks[k].pc = "downsample"
    /\ fileTasks' = [fileTasks EXCEPT ![k].pc = "timer"]
    /\ UNCHANGED <<currentFileObject, decodedAudioBuffer, encodedBrr, decodedPcm,
                   currentlyPlayingSource, playingChannel, resultsShown, midRate, sideRate,
                   playTasks, sources, producedBy, codecVars>>

\* the timer fired: lines 115-120 with setupResultControls and displayEncodingStats (whose
\* TypeError on a null decodedAudioBuffer the catch takes after the results are shown)
ResumeEncode(k) ==
    /\ fileTasks[k].pc = "timer"
    /\ encodedBrr' = [mid |-> encodedOf(fileTasks[k].file, "mid", fileTasks[k].targetMidSr),
                      side |-> encodedOf(fileTasks[k].file, "side", fileTasks[k].targetSideSr)]
    /\ producedBy' = [producedBy EXCEPT !.mid = k, !.side = k]
    /\ resultsShown' = TRUE
    /\ fileTasks' = [fileTasks EXCEPT ![k].pc = "done"]
    /\ UNCHANGED <<currentFileObject, decodedAudioBuffer, decodedPcm, currentlyPlayingSource,
                   playingChannel, midRate, sideRate, playTasks, sources, codecVars>>

fileVars == <<currentFileObject, decodedAudioBuffer, encodedBrr, resultsShown, midRate,
              sideRate, fileTasks, producedBy>>

\* lines 147-177, handlePlayback(channel): to its end, or to await upsampleSignal when the
\* channel's rate is below 8000 (a null decodedAudioBuffer throws at line 164 instead)
PlayClick(c) ==
    /\ resultsShown
    /\ IF playingChannel = c
       THEN /\ sources' = stoppedSources(sources)
            /\ currentlyPlayingSource' = 0
            /\ playingChannel' = "null"
            /\ UNCHANGED <<decodedPcm, playTasks>>
       ELSE /\ Len(playTasks) < MaxPlayTasks
            /\ playingChannel' = c
            /\ decodedPcm' = cachedPcm(decodedPcm, c)
            /\ IF rateOf(c) < 8000
               THEN /\ sources' = stoppedSources(sources)
                    /\ currentlyPlayingSource' = 0
                    /\ playTasks' = Append(playTasks,
                           [channel |-> c,
                            pc |-> IF decodedAudioBuffer = Null THEN "failed" ELSE "upsample"])
               ELSE /\ sources' = startedSource(stoppedSources(sources), c)
                    /\ currentlyPlayingSource' = Len(sources) + 1
                    /\ playTasks' = Append(playTasks, [channel |-> c, pc |-> "done"])
    /\ UNCHANGED <<fileVars, codecVars>>

\* upsampleSignal resolved: lines 165-177
ResumeUpsample(t) ==
    /\ playTasks[t].pc = "upsample"
    /\ IF decodedAudioBuffer = Null
       THEN /\ playTasks' = [playTasks EXCEPT ![t].pc = "failed"]
            /\ UNCHANGED <<sources, currentlyPlayingSource>>
       ELSE /\ playTasks' = [playTasks EXCEPT ![t].pc = "done"]
            /\ sources' = startedSource(sources, playTasks[t].channel)
            /\ currentlyPlayingSource' = Len(sources) + 1
    /\ UNCHANGED <<decodedPcm, playingChannel, fileVars, codecVars>>

\* lines 180-187, handleFullPlayback up to the 10 ms timer
FullClick ==
    /\ resultsShown
    /\ sources' = stoppedSources(sources)
    /\ currentlyPlayingSource' = 0
    /\ IF playingChannel = "full"
       THEN /\ playingChannel' = "null"
            /\ UNCHANGED playTasks
       ELSE /\ Len(playTasks) < MaxPlayTasks
            /\ playingChannel' = "full"
            /\ playTasks' = Append(playTasks, [channel |-> "full", pc |-> "timer"])
    /\ UNCHANGED <<decodedPcm, fileVars, codecVars>>

\* the timer fired: reconstructStereo, lines 245-256, up to await Promise.all (a null
\* decodedAudioBuffer throws at line 251, after the caches are filled)
ResumeFullTimer(t) ==
    /\ playTasks[t].pc = "timer"
    /\ decodedPcm' = cachedPcm(cachedPcm(decodedPcm, "mid"), "side")
    /\ playTasks' = [playTasks EXCEPT
                        ![t].pc = IF decodedAudioBuffer = Null THEN "failed" ELSE "reconstruct"]
    /\ UNCHANGED <<sources, currentlyPlayingSource, playingChannel, fileVars, codecVars>>

\* both upsampleSignal promises resolved: lines 258-271 and 190-201
ResumeReconstruct(t) ==
    /\ playTasks[t].pc = "reconstruct"
    /\ IF decodedAudioBuffer = Null
       THEN /\ playTasks' = [playTasks EXCEPT ![t].pc = "failed"]
            /\ UNCHANGED <<sources, currentlyPlayingSource>>
       ELSE /\ playTasks' = [playTasks EXCEPT ![t].pc = "done"]
            /\ sources' = startedSource(sources, "full")
            /\ currentlyPlayingSource' = Len(sources) + 1
    /\ UNCHANGED <<decodedPcm, playingChannel, fileVars, codecVars>>

\* a started source plays to its end; its onended (lines 175 and 197), if still set, calls
\* stopPlayback when playingChannel is the source's channel
SourceEnded(i) ==
    /\ sources[i].state = "playing"
    /\ IF sources[i].onended /\ playingChannel = sources[i].channel
       THEN /\ sources' = stoppedSources([sources EXCEPT ![i].state = "ended"])
            /\ currentlyPlayingSource' = 0
            /\ playingChannel' = "null"
       ELSE /\ sources' = [sources EXCEPT ![i].state = "ended"]
            /\ UNCHANGED <<currentlyPlayingSource, playingChannel>>
    /\ UNCHANGED <<decodedPcm, playTasks, fileVars, codecVars>>

\* line 63: the Gauss toggle's change listener is stopPlayback
GaussToggle ==
    /\ sources' = stoppedSources(sources)
    /\ currentlyPlayingSource' = 0
    /\ playingChannel' = "null"
    /\ UNCHANGED <<decodedPcm, playTasks, fileVars, codecVars>>

\* lines 273-292, downloadDecodedWav(channel)
DownloadDecoded(c) ==
    /\ resultsShown
    /\ decodedPcm' = cachedPcm(decodedPcm, c)
    /\ UNCHANGED <<sources, currentlyPlayingSource, playingChannel, playTasks, fileVars,
                   codecVars>>

\* lines 227-243, downloadFullMixWav: reconstructStereo fills the caches before its await;
\* what follows writes none of the variables here
DownloadFullMix ==
    /\ resultsShown
    /\ decodedPcm' = cachedPcm(cachedPcm(decodedPcm, "mid"), "side")
    /\ UNCHANGED <<sources, currentlyPlayingSource, playingChannel, playTasks, fileVars,
                   codecVars>>

NextApp ==
    \/ \E f \in Files : DropFile(f)
    \/ \E rate \in MidRates : SettingChange("mid", rate)
    \/ \E rate \in SideRates : SettingChange("side", rate)
    \/ \E k \in 1..Len(fileTasks) : ResumeRead(k)
    \/ \E k \in 1..Len(fileTasks) : ResumeDecode(k)
    \/ \E k \in 1..Len(fileTasks) : ResumeDownsample(k)
    \/ \E k \in 1..Len(fileTasks) : ResumeEncode(k)
    \/ \E c \in Channels : PlayClick(c)
    \/ \E t \in 1..Len(playTasks) : ResumeUpsample(t)
    \/ FullClick
    \/ \E t \in 1..Len(playTasks) : ResumeFullTimer(t)
    \/ \E t \in 1..Len(playTasks) : ResumeReconstruct(t)
    \/ \E i \in 1..Len(sources) : SourceEnded(i)
    \/ GaussToggle
    \/ \E c \in Channels : DownloadDecoded(c)
    \/ DownloadFullMix

SpecApp == InitApp /\ [][NextApp]_vars

(***************************************************************************)
(* Properties of the page.                                                 *)
(***************************************************************************)
\* C12: whenever the results controls are shown, encodedBrr.mid, encodedBrr.side and
\* decodedAudioBuffer were all produced by one and the same handleFile invocation, also
\* when invocations overlap or one of them ends early or with an error.
NoPartialResults ==
    resultsShown =>
        /\ encodedBrr.mid # Null /\ encodedBrr.side # Null /\ decodedAudioBuffer # Null
        /\ producedBy.mid = producedBy.side
        /\ producedBy.side = producedBy.buffer

\* the sources that were started and have neither been stopped nor ended
Playing == {i \in 1..Len(sources) : sources[i].state = "playing"}

\* a playback handler is between its click and the start of its source
PlaybackPending == \E t \in 1..Len(playTasks) : playTasks[t].pc \in {"upsample", "timer", "reconstruct"}

\* C17: at most one started source has not been stopped or ended, it is the one held in
\* currentlyPlayingSource, and playingChannel names its channel; playingChannel is null
\* when nothing plays and no playback is being prepared.
SinglePlayback ==
    /\ Cardinality(Playing) <= 1
    /\ \A i \in Playing : currentlyPlayingSource = i /\ playingChannel = sources[i].channel
    /\ (Playing = {} /\ ~PlaybackPending) => playingChannel = "null"

\* C18: for each channel, a non-null decodedPcm[c] equals decodeBRR(encodedBrr[c]) for the
\* current encodedBrr[c].
CacheCoherence ==
    \A c \in Channels : decodedPcm[c] # Null => decodedPcm[c] = decodeBRR(encodedBrr[c])

====
